---- MODULE Spec2Model ----
(***************************************************************************)
(* State-machine model of the flaskr SNS application: the relational       *)
(* tables (users, password_reset_tokens, user_connects, messages), the     *)
(* HTTP handlers of views.py that read and write them, and the requests    *)
(* that are in flight.  A handler is split into the steps between which    *)
(* the requests of other clients may run: the SELECTs that fill its lists, *)
(* each bulk UPDATE with its commit, and the closing validation with its   *)
(* INSERT, UPDATE or DELETE and commit.                                    *)
(***************************************************************************)
EXTENDS Integers, Sequences, FiniteSets, TLC

VARIABLES
  users,                  \* table users: id -> [password, is_active]
  password_reset_tokens,  \* table password_reset_tokens: id -> [token, user_id, expire_at]
  user_connects,          \* table user_connects: id -> [from_user_id, to_user_id, status, update_at]
  messages,               \* table messages: id -> [from_user_id, to_user_id, is_read, is_checked]
  now,                    \* datetime.now(), in days
  reqs,                   \* the requests in flight, one per worker slot
  resp,                   \* status code of the response the last step sent, "none" if it sent none
  body,                   \* what that response carries: the messages rendered, the ids checked, the lists of home
  issued,                 \* history: how many tokens uuid4() has produced
  consumed,               \* history: tokens deleted by a completed reset_password POST
  sessions,               \* the accounts login_user has given a client a session for
  sent_as_friend          \* history: message id -> was the pair friends when the row was inserted

vars == <<users, password_reset_tokens, user_connects, messages, now, reqs,
          resp, body, issued, consumed, sessions, sent_as_friend>>

-----------------------------------------------------------------------------
(* Bounds of the model *)

MaxConnects == 2     \* rows of user_connects
MaxMessages == 2     \* rows of messages
MaxTokens == 2       \* tokens ever issued
MaxTime == 2         \* days the clock advances

(* Program constants *)

NoneVal == 0             \* Python None (falsy, and no row has id 0)
MissingUserId == -1      \* request.args.get('user_id', -1, type=int)
StatusPending == 1       \* UserConnect.status default: 申請中
StatusAccepted == 2      \* UserConnect.update_status: 承認済み
TokenLifetimeDays == 1   \* publish_token: timedelta(days=1)
LimitValue == 50         \* get_friend_messages(limit_value=50)

UserIds == {1, 2, 3}     \* the accounts that take part
Slots == {1, 2}          \* the workers: two requests run at once
Passwords == {"pw1", "pw2"}
DefaultPassword == "default"   \* User.password default: a random hash nobody knows

-----------------------------------------------------------------------------
(* Table helpers: a table is a function from primary keys to rows *)

SetMax(S) == CHOOSE x \in S : \A y \in S : y <= x

EmptyTable == [i \in {} |-> NoneVal]

\* the primary key the store gives the next INSERT (SQLite rowid: max + 1)
NextId(t) == IF DOMAIN t = {} THEN 1 ELSE SetMax(DOMAIN t) + 1

Insert(t, row) ==
  [i \in DOMAIN t \cup {NextId(t)} |-> IF i \in DOMAIN t THEN t[i] ELSE row]

RECURSIVE AscIds(_)
AscIds(S) ==
  IF S = {} THEN <<>>
  ELSE LET m == CHOOSE x \in S : \A y \in S : x <= y
       IN <<m>> \o AscIds(S \ {m})

RECURSIVE DescIds(_)
DescIds(S) ==
  IF S = {} THEN <<>>
  ELSE <<SetMax(S)>> \o DescIds(S \ {SetMax(S)})

SeqRange(s) == {s[i] : i \in DOMAIN s}

\* SQL OFFSET o LIMIT l on an ordered result
OffsetLimit(s, o, l) ==
  IF o >= Len(s) THEN <<>>
  ELSE SubSeq(s, o + 1, IF o + l < Len(s) THEN o + l ELSE Len(s))

-----------------------------------------------------------------------------
(* models.py: UserConnect *)

UserConnectRow(from_user_id, to_user_id) ==
  [from_user_id |-> from_user_id, to_user_id |-> to_user_id,
   status |-> StatusPending, update_at |-> now]

\* select_by_from_user_id without its filter on to_user_id
select_by_from_user_id_any_recipient(cur, from_user_id) ==
  {c \in DOMAIN user_connects : user_connects[c].from_user_id = from_user_id}

\* the rows select_by_from_user_id's filter matches; .first() returns one of
\* them (the query has no ORDER BY) or None when there is none
select_by_from_user_id(cur, from_user_id) ==
  {c \in DOMAIN user_connects :
     /\ user_connects[c].from_user_id = from_user_id
     /\ user_connects[c].to_user_id = cur}

\* update_status that switches the status instead of setting it
update_status_toggle(c) ==
  [user_connects EXCEPT
     ![c].status = IF @ = StatusPending THEN StatusAccepted ELSE StatusPending,
     ![c].update_at = now]

update_status(c) ==
  [user_connects EXCEPT ![c].status = StatusAccepted, ![c].update_at = now]

\* is_friend with only the first branch of its or_
is_friend_outgoing_only(cur, to_user_id) ==
  \E c \in DOMAIN user_connects :
    /\ user_connects[c].from_user_id = cur
    /\ user_connects[c].to_user_id = to_user_id
    /\ user_connects[c].status = StatusAccepted

\* is_friend without its filter on status
is_friend_any_status(cur, to_user_id) ==
  \E c \in DOMAIN user_connects :
    \/ /\ user_connects[c].from_user_id = cur
       /\ user_connects[c].to_user_id = to_user_id
    \/ /\ user_connects[c].from_user_id = to_user_id
       /\ user_connects[c].to_user_id = cur

is_friend(cur, to_user_id) ==
  \E c \in DOMAIN user_connects :
    \/ /\ user_connects[c].from_user_id = cur
       /\ user_connects[c].to_user_id = to_user_id
       /\ user_connects[c].status = StatusAccepted
    \/ /\ user_connects[c].from_user_id = to_user_id
       /\ user_connects[c].to_user_id = cur
       /\ user_connects[c].status = StatusAccepted

-----------------------------------------------------------------------------
(* models.py: User.select_friends, select_requested_friends,                *)
(* select_requesting_friends.  A query joins users with user_connects and   *)
(* returns one row per pair that meets the ON clause; id is the user's id,  *)
(* connect tells the rows of one user apart.                                *)

JoinRow(u, c) == [id |-> u, connect |-> c]

\* select_friends without the filters on status
select_friends_any_status(cur) ==
  {row \in {JoinRow(u, c) : u \in DOMAIN users, c \in DOMAIN user_connects} :
     \/ /\ user_connects[row.connect].to_user_id = row.id
        /\ user_connects[row.connect].from_user_id = cur
     \/ /\ user_connects[row.connect].from_user_id = row.id
        /\ user_connects[row.connect].to_user_id = cur}

select_friends(cur) ==
  {row \in {JoinRow(u, c) : u \in DOMAIN users, c \in DOMAIN user_connects} :
     \/ /\ user_connects[row.connect].to_user_id = row.id
        /\ user_connects[row.connect].from_user_id = cur
        /\ user_connects[row.connect].status = StatusAccepted
     \/ /\ user_connects[row.connect].from_user_id = row.id
        /\ user_connects[row.connect].to_user_id = cur
        /\ user_connects[row.connect].status = StatusAccepted}

select_requested_friends(cur) ==
  {row \in {JoinRow(u, c) : u \in DOMAIN users, c \in DOMAIN user_connects} :
     /\ user_connects[row.connect].from_user_id = row.id
     /\ user_connects[row.connect].to_user_id = cur
     /\ user_connects[row.connect].status = StatusPending}

select_requesting_friends(cur) ==
  {row \in {JoinRow(u, c) : u \in DOMAIN users, c \in DOMAIN user_connects} :
     /\ user_connects[row.connect].from_user_id = cur
     /\ user_connects[row.connect].to_user_id = row.id
     /\ user_connects[row.connect].status = StatusPending}

-----------------------------------------------------------------------------
(* models.py: TalkMessage *)

TalkMessageRow(from_user_id, to_user_id) ==
  [from_user_id |-> from_user_id, to_user_id |-> to_user_id,
   is_read |-> FALSE, is_checked |-> FALSE]

\* ids of the pair's messages, newest first, OFFSET offset_value LIMIT limit_value
\* get_friend_messages without its filter on id1: every message id2 has sent
\* or received
get_friend_messages_of_id2(id1, id2, offset_value, limit_value) ==
  OffsetLimit(
    DescIds({m \in DOMAIN messages :
       \/ messages[m].to_user_id = id2
       \/ messages[m].from_user_id = id2}),
    offset_value, limit_value)

get_friend_messages(id1, id2, offset_value, limit_value) ==
  OffsetLimit(
    DescIds({m \in DOMAIN messages :
       \/ messages[m].from_user_id = id1 /\ messages[m].to_user_id = id2
       \/ messages[m].from_user_id = id2 /\ messages[m].to_user_id = id1}),
    offset_value, limit_value)

\* update_is_read_by_ids that writes the flag of every row: set for the ids,
\* cleared for the others
update_is_read_by_ids_all_rows(ids) ==
  [m \in DOMAIN messages |-> [messages[m] EXCEPT !.is_read = (m \in ids)]]

update_is_read_by_ids(ids) ==
  [m \in DOMAIN messages |->
     IF m \in ids THEN [messages[m] EXCEPT !.is_read = TRUE] ELSE messages[m]]

\* update_is_checked_by_ids whose UPDATE has lost its filter on the ids
update_is_checked_by_ids_every_row(ids) ==
  [m \in DOMAIN messages |-> [messages[m] EXCEPT !.is_checked = TRUE]]

update_is_checked_by_ids(ids) ==
  [m \in DOMAIN messages |->
     IF m \in ids THEN [messages[m] EXCEPT !.is_checked = TRUE] ELSE messages[m]]

\* select_not_read_messages without its filter on to_user_id
select_not_read_messages_any_recipient(from_user_id, to_user_id) ==
  AscIds({m \in DOMAIN messages :
     /\ messages[m].from_user_id = from_user_id
     /\ ~messages[m].is_read})

select_not_read_messages(from_user_id, to_user_id) ==
  AscIds({m \in DOMAIN messages :
     /\ messages[m].from_user_id = from_user_id
     /\ messages[m].to_user_id = to_user_id
     /\ ~messages[m].is_read})

\* select_not_checked_messages without its filter on is_read
select_not_checked_messages_unread(from_user_id, to_user_id) ==
  AscIds({m \in DOMAIN messages :
     /\ messages[m].from_user_id = from_user_id
     /\ messages[m].to_user_id = to_user_id
     /\ ~messages[m].is_checked})

\* select_not_checked_messages with the two user ids exchanged
select_not_checked_messages_swapped(from_user_id, to_user_id) ==
  AscIds({m \in DOMAIN messages :
     /\ messages[m].from_user_id = to_user_id
     /\ messages[m].to_user_id = from_user_id
     /\ messages[m].is_read
     /\ ~messages[m].is_checked})

select_not_checked_messages(from_user_id, to_user_id) ==
  AscIds({m \in DOMAIN messages :
     /\ messages[m].from_user_id = from_user_id
     /\ messages[m].to_user_id = to_user_id
     /\ messages[m].is_read
     /\ ~messages[m].is_checked})

-----------------------------------------------------------------------------
(* Requests in flight *)

\* a worker slot that runs no request
Idle ==
  [h |-> "none", pc |-> "done", u |-> NoneVal, arg |-> NoneVal,
   post |-> FALSE, ids1 |-> {}, ids2 |-> {},
   not_read_messages |-> <<>>, not_checked_messages |-> <<>>, msgs |-> <<>>]

\* a request of handler h at step pc: u is current_user, arg the id the
\* request names, post the method, ids1 / ids2 the ids the handler holds;
\* not_read_messages / not_checked_messages are the lists of rows a poll
\* holds, msgs the list `messages` of the message view
Running(h, pc, u, arg, post, ids1, ids2) ==
  [h |-> h, pc |-> pc, u |-> u, arg |-> arg, post |-> post,
   ids1 |-> ids1, ids2 |-> ids2,
   not_read_messages |-> <<>>, not_checked_messages |-> <<>>, msgs |-> <<>>]

Free(s) == reqs[s].pc = "done"

\* a new request is taken by the first worker that is free
Accepts(s) == Free(s) /\ \A t \in Slots : t < s => ~Free(t)

At(s, h, pc) == reqs[s].h = h /\ reqs[s].pc = pc

\* a response that carries no list
NoBody ==
  [data |-> <<>>, checked_message_ids |-> <<>>,
   friends |-> {}, requested_friends |-> {}, requesting_friends |-> {}]

\* the request of slot s returns with status code
Finish(s, code) ==
  /\ reqs' = [reqs EXCEPT ![s] = Idle]
  /\ resp' = code
  /\ body' = NoBody

\* the request of slot s returns jsonify(data=..., checked_message_ids=...)
FinishJson(s, data, checked_message_ids) ==
  /\ reqs' = [reqs EXCEPT ![s] = Idle]
  /\ resp' = "200"
  /\ body' = [NoBody EXCEPT !.data = data,
                              !.checked_message_ids = checked_message_ids]

Continue(s, r) ==
  /\ reqs' = [reqs EXCEPT ![s] = r]
  /\ resp' = "none"
  /\ body' = NoBody

\* @login_required: the client holds the session of an account that
\* load_user still finds
LoggedIn(u) == u \in sessions /\ u \in DOMAIN users

AccountVars == <<users, password_reset_tokens, issued, consumed, sessions>>

-----------------------------------------------------------------------------
(* views.py: connect_user *)

\* redirect(url_for(session.pop('url', 'app:home'))): the session cookie comes
\* with the request; without 'url' in it url_for('app:home') finds no endpoint
connect_redirect(has_url) == IF has_url THEN "302" ELSE "500"

\* connect_user whose "connect" replaces the edges the two users already have
connect_user_replaces_edges(s, cur, connect_condition, to_user_id, has_url) ==
  /\ Accepts(s)
  /\ LoggedIn(cur)
  /\ IF connect_condition = "connect"
       THEN /\ NextId(user_connects) <= MaxConnects
            /\ user_connects' = Insert([c \in {d \in DOMAIN user_connects :
                                {user_connects[d].from_user_id, user_connects[d].to_user_id}
                                  # {cur, to_user_id}} |-> user_connects[c]],
                          UserConnectRow(cur, to_user_id))
            /\ Finish(s, connect_redirect(has_url))
       ELSE IF connect_condition = "accept"
       THEN /\ UNCHANGED user_connects
            /\ IF select_by_from_user_id(cur, to_user_id) = {}
                 THEN Finish(s, connect_redirect(has_url))
                 ELSE \E connect \in select_by_from_user_id(cur, to_user_id) :
                        Continue(s, Running("connect_user", "update_status", cur,
                                            connect, TRUE, {}, {}))
       ELSE /\ UNCHANGED user_connects
            /\ Finish(s, connect_redirect(has_url))
  /\ UNCHANGED <<messages, sent_as_friend, now, AccountVars>>

\* POST /connect_user, up to its first commit or its SELECT
connect_user(s, cur, connect_condition, to_user_id, has_url) ==
  /\ Accepts(s)
  /\ LoggedIn(cur)
  /\ IF connect_condition = "connect"
       THEN /\ NextId(user_connects) <= MaxConnects
            /\ user_connects' = Insert(user_connects, UserConnectRow(cur, to_user_id))
            /\ Finish(s, connect_redirect(has_url))
       ELSE IF connect_condition = "accept"
       THEN /\ UNCHANGED user_connects
            /\ IF select_by_from_user_id(cur, to_user_id) = {}
                 THEN Finish(s, connect_redirect(has_url))
                 ELSE \E connect \in select_by_from_user_id(cur, to_user_id) :
                        Continue(s, Running("connect_user", "update_status", cur,
                                            connect, TRUE, {}, {}))
       ELSE /\ UNCHANGED user_connects
            /\ Finish(s, connect_redirect(has_url))
  /\ UNCHANGED <<messages, sent_as_friend, now, AccountVars>>

\* connect.update_status() and db.session.commit(), then the redirect
connect_user_update_status(s, has_url) ==
  /\ At(s, "connect_user", "update_status")
  /\ IF reqs[s].arg \in DOMAIN user_connects
       THEN /\ user_connects' = update_status(reqs[s].arg)
            /\ Finish(s, connect_redirect(has_url))
       ELSE \* the row was deleted meanwhile: the UPDATE matches no row
            /\ UNCHANGED user_connects
            /\ Finish(s, "500")
  /\ UNCHANGED <<messages, sent_as_friend, now, AccountVars>>

-----------------------------------------------------------------------------
(* views.py: home *)

\* GET / of a logged-in client: the three lists home.html shows
home(s, cur) ==
  /\ Accepts(s)
  /\ LoggedIn(cur)
  /\ reqs' = [reqs EXCEPT ![s] = Idle]
  /\ resp' = "200"
  /\ body' = [NoBody EXCEPT !.friends = select_friends(cur),
                            !.requested_friends = select_requested_friends(cur),
                            !.requesting_friends = select_requesting_friends(cur)]
  /\ UNCHANGED <<user_connects, messages, sent_as_friend, now, AccountVars>>

-----------------------------------------------------------------------------
(* views.py: message *)

\* the step of message() that follows, given what is left to do
message_pc(not_checked_message_ids, read_message_ids, post) ==
  IF not_checked_message_ids # {} THEN "update_is_checked"
  ELSE IF read_message_ids # {} THEN "update_is_read"
  ELSE IF post THEN "post"
  ELSE "done"

\* render_template('message.html', messages=messages, ...)
message_render(s, msgs) == FinishJson(s, msgs, <<>>)

message_continue(s, r) ==
  IF r.pc = "done" THEN message_render(s, r.msgs) ELSE Continue(s, r)

\* rows the POSTs in flight are still to insert
PendingPosts == Cardinality({s \in Slots : reqs[s].h = "message" /\ reqs[s].post})

\* message() without the is_friend check it starts with
message_no_friend_check(s, cur, id, post) ==
  /\ Accepts(s)
  /\ LoggedIn(cur)
  /\ post => Cardinality(DOMAIN messages) + PendingPosts < MaxMessages
  /\ LET msgs == SeqRange(get_friend_messages(cur, id, 0, LimitValue))
         read_message_ids ==
           {m \in msgs : ~messages[m].is_read /\ messages[m].from_user_id = id}
         not_checked_message_ids ==
           {m \in msgs : /\ messages[m].is_read
                         /\ ~messages[m].is_checked
                         /\ messages[m].from_user_id = cur}
     IN message_continue(s,
          [Running("message",
                   message_pc(not_checked_message_ids, read_message_ids, post),
                   cur, id, post, read_message_ids, not_checked_message_ids)
             EXCEPT !.msgs = get_friend_messages(cur, id, 0, LimitValue)])
  /\ UNCHANGED <<user_connects, messages, sent_as_friend, now, AccountVars>>

\* GET|POST /message/<id>: the friend check and the SELECT of the conversation
message(s, cur, id, post) ==
  /\ Accepts(s)
  /\ LoggedIn(cur)
  /\ post => Cardinality(DOMAIN messages) + PendingPosts < MaxMessages
  /\ IF ~is_friend(cur, id)
       THEN Finish(s, "302")
       ELSE LET msgs == SeqRange(get_friend_messages(cur, id, 0, LimitValue))
                read_message_ids ==
                  {m \in msgs : ~messages[m].is_read /\ messages[m].from_user_id = id}
                not_checked_message_ids ==
                  {m \in msgs : /\ messages[m].is_read
                                /\ ~messages[m].is_checked
                                /\ messages[m].from_user_id = cur}
            IN message_continue(s,
                 [Running("message",
                          message_pc(not_checked_message_ids, read_message_ids, post),
                          cur, id, post, read_message_ids, not_checked_message_ids)
                    EXCEPT !.msgs = get_friend_messages(cur, id, 0, LimitValue)])
  /\ UNCHANGED <<user_connects, messages, sent_as_friend, now, AccountVars>>

message_update_is_checked(s) ==
  /\ At(s, "message", "update_is_checked")
  /\ messages' = update_is_checked_by_ids(reqs[s].ids2)
  /\ message_continue(s, [reqs[s] EXCEPT !.pc = message_pc({}, reqs[s].ids1, reqs[s].post)])
  /\ UNCHANGED <<user_connects, sent_as_friend, now, AccountVars>>

message_update_is_read(s) ==
  /\ At(s, "message", "update_is_read")
  /\ messages' = update_is_read_by_ids(reqs[s].ids1)
  /\ message_continue(s, [reqs[s] EXCEPT !.pc = message_pc({}, {}, reqs[s].post)])
  /\ UNCHANGED <<user_connects, sent_as_friend, now, AccountVars>>

\* MessageForm.validate: the hidden field to_user_id must name a friend
MessageForm_validate(cur, form_to_user_id) == is_friend(cur, form_to_user_id)

\* request.method == 'POST' and form.validate(): the INSERT and its commit
message_post(s, form_to_user_id) ==
  /\ At(s, "message", "post")
  /\ IF MessageForm_validate(reqs[s].u, form_to_user_id)
       THEN /\ messages' = Insert(messages, TalkMessageRow(reqs[s].u, reqs[s].arg))
            /\ sent_as_friend' =
                 Insert(sent_as_friend,
                        \E c \in DOMAIN user_connects :
                          /\ user_connects[c].status = StatusAccepted
                          /\ {user_connects[c].from_user_id, user_connects[c].to_user_id}
                               = {reqs[s].u, reqs[s].arg})
            /\ Finish(s, "302")
       ELSE /\ UNCHANGED <<messages, sent_as_friend>>
            /\ message_render(s, reqs[s].msgs)
  /\ UNCHANGED <<user_connects, now, AccountVars>>

-----------------------------------------------------------------------------
(* views.py: message_ajax *)

select_user_by_id(id) == IF id \in DOMAIN users THEN id ELSE NoneVal

\* utils/message_format.py: one block of HTML per message, in the order of the
\* list; a block is stood for by the id of the message it renders
make_message_format(msgs) == [i \in 1..Len(msgs) |-> msgs[i]]

\* for message in messages[::-1]: the blocks in the reverse order of the list
make_old_message_format(msgs) == [i \in 1..Len(msgs) |-> msgs[Len(msgs) + 1 - i]]

\* GET /message_ajax?user_id=: the SELECT of the peer's unread messages
message_ajax(s, cur, user_id) ==
  /\ Accepts(s)
  /\ LoggedIn(cur)
  /\ LET not_read_messages == select_not_read_messages(user_id, cur)
         not_read_message_ids == SeqRange(not_read_messages)
     IN Continue(s, [Running("message_ajax",
                             IF not_read_message_ids # {} THEN "update_is_read"
                                                          ELSE "select_not_checked",
                             cur, select_user_by_id(user_id), FALSE,
                             not_read_message_ids, {})
                       EXCEPT !.not_read_messages = not_read_messages])
  /\ UNCHANGED <<user_connects, messages, sent_as_friend, now, AccountVars>>

message_ajax_update_is_read(s) ==
  /\ At(s, "message_ajax", "update_is_read")
  /\ messages' = update_is_read_by_ids(reqs[s].ids1)
  /\ Continue(s, [reqs[s] EXCEPT !.pc = "select_not_checked"])
  /\ UNCHANGED <<user_connects, sent_as_friend, now, AccountVars>>

\* select_not_checked_messages(current_user.get_id(), user.id): user is None
\* for an id that names no account, and user.id raises
message_ajax_select_not_checked(s) ==
  /\ At(s, "message_ajax", "select_not_checked")
  /\ IF reqs[s].arg = NoneVal
       THEN Finish(s, "500")
       ELSE LET not_checked_messages ==
                  select_not_checked_messages(reqs[s].u, reqs[s].arg)
                not_checked_message_ids == SeqRange(not_checked_messages)
            IN IF not_checked_message_ids = {}
                 THEN FinishJson(s, make_message_format(reqs[s].not_read_messages),
                                 <<>>)
                 ELSE Continue(s, [reqs[s] EXCEPT
                                     !.pc = "update_is_checked",
                                     !.ids2 = not_checked_message_ids,
                                     !.not_checked_messages = not_checked_messages])
  /\ UNCHANGED <<user_connects, messages, sent_as_friend, now, AccountVars>>

message_ajax_update_is_checked(s) ==
  /\ At(s, "message_ajax", "update_is_checked")
  /\ messages' = update_is_checked_by_ids(reqs[s].ids2)
  /\ FinishJson(s, make_message_format(reqs[s].not_read_messages),
                 reqs[s].not_checked_messages)
  /\ UNCHANGED <<user_connects, sent_as_friend, now, AccountVars>>

-----------------------------------------------------------------------------
(* views.py: load_old_messages *)

\* GET /load_old_messages?user_id=&offset_value=: without one of the two
\* arguments the view returns None, which Flask answers with 500
load_old_messages(s, cur, user_id, offset_value) ==
  /\ Accepts(s)
  /\ LoggedIn(cur)
  /\ IF user_id = MissingUserId \/ offset_value = MissingUserId
       THEN Finish(s, "500")
       ELSE FinishJson(s,
              make_old_message_format(
                get_friend_messages(cur, user_id, offset_value * LimitValue,
                                    LimitValue)),
              <<>>)
  /\ UNCHANGED <<user_connects, messages, sent_as_friend, now, AccountVars>>

-----------------------------------------------------------------------------
(* models.py: User, PasswordResetToken *)

\* a users row whose is_active column defaults to true
UserRow_active == [password |-> DefaultPassword, is_active |-> TRUE]

UserRow == [password |-> DefaultPassword, is_active |-> FALSE]

save_new_password(user, new_password) ==
  [users EXCEPT ![user] = [password |-> new_password, is_active |-> TRUE]]

\* token = str(uuid4()): a value no earlier call returned
publish_token(user) ==
  Insert(password_reset_tokens,
         [token |-> issued + 1, user_id |-> user,
          expire_at |-> now + TokenLifetimeDays])

\* get_user_id_by_token without its filter on expire_at
get_user_id_by_token_any_age(token) ==
  LET records == {r \in DOMAIN password_reset_tokens :
                    password_reset_tokens[r].token = token}
  IN IF records = {} THEN NoneVal
     ELSE password_reset_tokens[CHOOSE r \in records : TRUE].user_id

get_user_id_by_token(token) ==
  LET records == {r \in DOMAIN password_reset_tokens :
                    /\ password_reset_tokens[r].token = token
                    /\ password_reset_tokens[r].expire_at > now}
  IN IF records = {} THEN NoneVal
     ELSE password_reset_tokens[CHOOSE r \in records : TRUE].user_id

\* delete_token that deletes no row
delete_token_nothing(token) == password_reset_tokens

delete_token(token) ==
  [r \in {x \in DOMAIN password_reset_tokens :
            password_reset_tokens[x].token # token} |-> password_reset_tokens[r]]

SocialVars == <<user_connects, messages, sent_as_friend>>

\* tokens the requests in flight are still to publish
PendingTokens == Cardinality({s \in Slots : reqs[s].h = "register"})

-----------------------------------------------------------------------------
(* views.py: register, forgot_password, reset_password *)

\* POST /register with an address no account has: the INSERT of the user
register(s) ==
  /\ Accepts(s)
  /\ NextId(users) \in UserIds
  /\ issued + PendingTokens < MaxTokens
  /\ users' = Insert(users, UserRow)
  /\ Continue(s, Running("register", "publish_token", NoneVal, NextId(users),
                         TRUE, {}, {}))
  /\ UNCHANGED <<password_reset_tokens, issued, consumed, sessions, now, SocialVars>>

\* the token of the new account, its commit and the mail
register_publish_token(s) ==
  /\ At(s, "register", "publish_token")
  /\ password_reset_tokens' = publish_token(reqs[s].arg)
  /\ issued' = issued + 1
  /\ Finish(s, "200")
  /\ UNCHANGED <<users, consumed, sessions, now, SocialVars>>

\* POST /forgot_password: email is the address of account user, if it exists
forgot_password(s, user) ==
  /\ Accepts(s)
  /\ IF select_user_by_id(user) # NoneVal
       THEN /\ issued + PendingTokens < MaxTokens
            /\ password_reset_tokens' = publish_token(user)
            /\ issued' = issued + 1
       ELSE UNCHANGED <<password_reset_tokens, issued>>
  /\ Finish(s, "200")
  /\ UNCHANGED <<users, consumed, sessions, now, SocialVars>>

\* GET|POST /reset_password/<token>: the lookup of the token; post stands for
\* request.method == 'POST' and form.validate()
reset_password(s, token, post) ==
  /\ Accepts(s)
  /\ LET reset_user_id == get_user_id_by_token(token)
     IN IF reset_user_id = NoneVal
          THEN Finish(s, "500")
          ELSE IF post
          THEN Continue(s, Running("reset_password", "save_new_password",
                                   reset_user_id, token, TRUE, {}, {}))
          ELSE Finish(s, "200")
  /\ UNCHANGED <<AccountVars, now, SocialVars>>

\* the handler with a commit of its own after save_new_password, and an
\* exception before delete_token runs
reset_password_save_new_password_own_commit(s, password) ==
  /\ At(s, "reset_password", "save_new_password")
  /\ users' = save_new_password(reqs[s].u, password)
  /\ UNCHANGED <<password_reset_tokens, consumed>>
  /\ Finish(s, "500")
  /\ UNCHANGED <<issued, sessions, now, SocialVars>>

\* select_user_by_id, save_new_password, delete_token and its commit
reset_password_save_new_password(s, password) ==
  /\ At(s, "reset_password", "save_new_password")
  /\ IF select_user_by_id(reqs[s].u) = NoneVal
       THEN /\ UNCHANGED <<users, password_reset_tokens, consumed>>
            /\ Finish(s, "500")
       ELSE /\ users' = save_new_password(reqs[s].u, password)
            /\ password_reset_tokens' = delete_token(reqs[s].arg)
            /\ consumed' = consumed \cup {reqs[s].arg}
            /\ Finish(s, "302")
  /\ UNCHANGED <<issued, sessions, now, SocialVars>>

\* an exception inside `with db.session.begin(nested=True)`, before the commit
\* of delete_token: the block rolls back what the request has written
reset_password_rollback(s) ==
  /\ At(s, "reset_password", "save_new_password")
  /\ Finish(s, "500")
  /\ UNCHANGED <<AccountVars, now, SocialVars>>

validate_password(user, password) == users[user].password = password

\* POST /login: email is the address of account user, if it exists
login(s, user, password) ==
  /\ Accepts(s)
  /\ IF /\ select_user_by_id(user) # NoneVal
        /\ users[user].is_active
        /\ validate_password(user, password)
       THEN /\ sessions' = sessions \cup {user}
            /\ Finish(s, "302")
       ELSE /\ UNCHANGED sessions
            /\ Finish(s, "200")
  /\ UNCHANGED <<users, password_reset_tokens, issued, consumed, now, SocialVars>>

\* POST /change_password of a logged-in client
change_password(s, cur, password) ==
  /\ Accepts(s)
  /\ LoggedIn(cur)
  /\ users' = save_new_password(cur, password)
  /\ Finish(s, "302")
  /\ UNCHANGED <<password_reset_tokens, issued, consumed, sessions, now, SocialVars>>

\* POST /user of a logged-in client (the handler user): it writes username,
\* email and picture_path, columns that no other handler reads for a decision
user_edit(s, cur) ==
  /\ Accepts(s)
  /\ LoggedIn(cur)
  /\ users' = [users EXCEPT ![cur] = @]
  /\ Finish(s, "200")
  /\ UNCHANGED <<password_reset_tokens, issued, consumed, sessions, now, SocialVars>>

-----------------------------------------------------------------------------
(* views.py: the maintenance routes user_delete and connect_delete *)

\* a table without the row of primary key id
Delete(t, id) == [i \in DOMAIN t \ {id} |-> t[i]]

\* POST /users/<id>/delete: db.session.delete(None) raises for an id without
\* a row; the rows of the other tables that name the user stay (the models
\* declare no cascade)
user_delete(s, id) ==
  /\ Accepts(s)
  /\ IF id \in DOMAIN users
       THEN /\ users' = Delete(users, id)
            /\ Finish(s, "302")
       ELSE /\ UNCHANGED users
            /\ Finish(s, "500")
  /\ UNCHANGED <<password_reset_tokens, issued, consumed, sessions, now, SocialVars>>

\* POST /connects/<id>/delete
connect_delete(s, id) ==
  /\ Accepts(s)
  /\ IF id \in DOMAIN user_connects
       THEN /\ user_connects' = Delete(user_connects, id)
            /\ Finish(s, "302")
       ELSE /\ UNCHANGED user_connects
            /\ Finish(s, "500")
  /\ UNCHANGED <<messages, sent_as_friend, now, AccountVars>>

\* a day passes
Tick ==
  /\ now < MaxTime
  /\ now' = now + 1
  /\ UNCHANGED <<AccountVars, SocialVars, reqs, resp, body>>

-----
(* Specifications.  The three parts of the application share no table      *)
(* they write: accounts (users, tokens), friend requests (user_connects)   *)
(* and conversations (messages); each is explored on its own, the later   *)
(* ones from a state the earlier ones lead to.  The conversations are      *)
(* explored a second time together with load_old_messages.                 *)

ActiveUsers == [u \in UserIds |-> [password |-> "pw1", is_active |-> TRUE]]

\* Friend requests: every account has registered and set its password
Init ==
  /\ users = ActiveUsers
  /\ password_reset_tokens = EmptyTable
  /\ user_connects = EmptyTable
  /\ messages = EmptyTable
  /\ now = 0
  /\ reqs = [s \in Slots |-> Idle]
  /\ resp = "none"
  /\ body = NoBody
  /\ issued = 0
  /\ consumed = {}
  /\ sessions = UserIds
  /\ sent_as_friend = EmptyTable

Next ==
  \/ \E s \in Slots, cur \in UserIds, to_user_id \in UserIds, has_url \in BOOLEAN,
        connect_condition \in {"connect", "accept", ""} :
       connect_user(s, cur, connect_condition, to_user_id, has_url)
  \/ \E s \in Slots, has_url \in BOOLEAN : connect_user_update_status(s, has_url)
  \/ \E s \in Slots, cur \in UserIds : home(s, cur)

Spec == Init /\ [][Next]_vars

\* Conversations: user 2 has accepted the request of user 1, and user 3 has
\* sent user 1 a request that is still pending; the requests rest meanwhile
FriendsOneTwo ==
  <<[from_user_id |-> 1, to_user_id |-> 2, status |-> StatusAccepted, update_at |-> 0],
    [from_user_id |-> 3, to_user_id |-> 1, status |-> StatusPending, update_at |-> 0]>>

InitMessage ==
  /\ users = ActiveUsers
  /\ password_reset_tokens = EmptyTable
  /\ user_connects = FriendsOneTwo
  /\ messages = EmptyTable
  /\ now = 0
  /\ reqs = [s \in Slots |-> Idle]
  /\ resp = "none"
  /\ body = NoBody
  /\ issued = 0
  /\ consumed = {}
  /\ sessions = UserIds
  /\ sent_as_friend = EmptyTable

NextMessage ==
  \/ \E s \in Slots, cur \in UserIds, id \in UserIds, post \in BOOLEAN :
       message(s, cur, id, post)
  \/ \E s \in Slots : message_update_is_checked(s)
  \/ \E s \in Slots : message_update_is_read(s)
  \/ \E s \in Slots, form_to_user_id \in UserIds \cup {NoneVal} :
       message_post(s, form_to_user_id)
  \/ \E s \in Slots, cur \in UserIds, user_id \in UserIds \cup {MissingUserId} :
       message_ajax(s, cur, user_id)
  \/ \E s \in Slots : message_ajax_update_is_read(s)
  \/ \E s \in Slots : message_ajax_select_not_checked(s)
  \/ \E s \in Slots : message_ajax_update_is_checked(s)

SpecMessage == InitMessage /\ [][NextMessage]_vars

\* the pages a client asks load_old_messages for, and the missing argument
OffsetValues == {MissingUserId, 0, 1}

\* Conversations with their paging: load_old_messages, which writes no table,
\* next to the view, the send and the poll
NextPaging ==
  \/ NextMessage
  \/ \E s \in Slots, cur \in UserIds, user_id \in UserIds \cup {MissingUserId},
        offset_value \in OffsetValues :
       load_old_messages(s, cur, user_id, offset_value)

SpecPaging == InitMessage /\ [][NextPaging]_vars

\* Friendships over time: the friend requests together with the maintenance
\* routes and the password, profile, view, send and poll requests of the
\* logged-in users
NextFriendship ==
  \/ \E s \in Slots, cur \in UserIds, to_user_id \in UserIds, has_url \in BOOLEAN,
        connect_condition \in {"connect", "accept", ""} :
       connect_user(s, cur, connect_condition, to_user_id, has_url)
  \/ \E s \in Slots, has_url \in BOOLEAN : connect_user_update_status(s, has_url)
  \/ \E s \in Slots, id \in 1..MaxConnects : connect_delete(s, id)
  \/ \E s \in Slots, id \in UserIds : user_delete(s, id)
  \/ \E s \in Slots, cur \in UserIds, password \in Passwords :
       change_password(s, cur, password)
  \/ \E s \in Slots, cur \in UserIds : user_edit(s, cur)

SpecFriendship == Init /\ [][NextFriendship]_vars

\* Accounts: the store as create_app leaves it, with no row in any table
InitAccount ==
  /\ users = EmptyTable
  /\ password_reset_tokens = EmptyTable
  /\ user_connects = EmptyTable
  /\ messages = EmptyTable
  /\ now = 0
  /\ reqs = [s \in Slots |-> Idle]
  /\ resp = "none"
  /\ body = NoBody
  /\ issued = 0
  /\ consumed = {}
  /\ sessions = {}
  /\ sent_as_friend = EmptyTable

TokenValues == 1..MaxTokens

NextAccount ==
  \/ \E s \in Slots : register(s)
  \/ \E s \in Slots : register_publish_token(s)
  \/ \E s \in Slots, user \in UserIds : forgot_password(s, user)
  \/ \E s \in Slots, token \in TokenValues, post \in BOOLEAN :
       reset_password(s, token, post)
  \/ \E s \in Slots, password \in Passwords :
       reset_password_save_new_password(s, password)
  \/ \E s \in Slots : reset_password_rollback(s)
  \/ \E s \in Slots, user \in UserIds, password \in Passwords :
       login(s, user, password)
  \/ \E s \in Slots, cur \in UserIds, password \in Passwords :
       change_password(s, cur, password)
  \/ \E s \in Slots, cur \in UserIds : user_edit(s, cur)
  \/ Tick

SpecAccount == InitAccount /\ [][NextAccount]_vars

-----------------------------------------------------------------------------
(* Properties *)

\* the relation the data model defines: an accepted edge joins the pair, in
\* either direction
Friends(u, v) ==
  \E c \in DOMAIN user_connects :
    /\ user_connects[c].status = StatusAccepted
    /\ {user_connects[c].from_user_id, user_connects[c].to_user_id} = {u, v}

\* slot s takes a step of its running request
Steps(s) == reqs[s].pc # "done" /\ reqs'[s] # reqs[s]

\* the friend-request part reaches the state the conversation part starts from
RequestsSettled ==
  /\ user_connects = FriendsOneTwo
  /\ \A s \in Slots : Free(s)

\* a list of ids in which every id is smaller than the one after it
Ascending(seq) == \A i, j \in DOMAIN seq : i < j => seq[i] < seq[j]

\* a list of ids in which every id is larger than the one after it
Descending(seq) == \A i, j \in DOMAIN seq : i < j => seq[i] > seq[j]

\* C1: in every reachable state, whatever sends, views and polls have
\* interleaved, every message with is_checked = true has is_read = true.
C1_CheckedImpliesRead ==
  \A m \in DOMAIN messages : messages[m].is_checked => messages[m].is_read

\* a message has been marked checked while a second request is under way
C1_Witness ==
  /\ \E m \in DOMAIN messages : messages[m].is_checked
  /\ \E s \in Slots : ~Free(s)

\* C2: every edge's status is 1 or 2 in every state, and an edge whose status
\* is 2 has status 2 after every step: connect, accept, a repeated accept and
\* accepts that overlap never set it back.
C2_StatusNeverBackward ==
  /\ [](\A c \in DOMAIN user_connects :
          user_connects[c].status \in {StatusPending, StatusAccepted})
  /\ [][\A c \in DOMAIN user_connects \cap DOMAIN user_connects' :
          user_connects[c].status = StatusAccepted
            => user_connects'[c].status = StatusAccepted]_vars

\* an accepted edge that a further accept, already past its SELECT, is about
\* to update again
C2_Witness ==
  \E s \in Slots :
    /\ At(s, "connect_user", "update_status")
    /\ user_connects[reqs[s].arg].status = StatusAccepted

\* C3: a step changes an edge only as the update of an 'accept' request whose
\* logged-in user is the edge's to_user_id, and then sets its status to 2; a
\* request of any other user (the sender of the edge, a third user) leaves the
\* edge as it is.
C3_OnlyRecipientAccepts ==
  [][\A c \in DOMAIN user_connects :
       (c \notin DOMAIN user_connects' \/ user_connects'[c] # user_connects[c])
         => /\ c \in DOMAIN user_connects'
            /\ user_connects'[c].from_user_id = user_connects[c].from_user_id
            /\ user_connects'[c].to_user_id = user_connects[c].to_user_id
            /\ user_connects'[c].status = StatusAccepted
            /\ \E s \in Slots :
                 /\ At(s, "connect_user", "update_status")
                 /\ Steps(s)
                 /\ reqs[s].arg = c
                 /\ reqs[s].u = user_connects[c].to_user_id]_vars

\* an edge between two different users has been accepted while its sender has
\* an accept request of his own under way
C3_Witness ==
  \E c \in DOMAIN user_connects, s \in Slots :
    /\ user_connects[c].status = StatusAccepted
    /\ user_connects[c].from_user_id # user_connects[c].to_user_id
    /\ At(s, "connect_user", "update_status")
    /\ reqs[s].u = user_connects[c].from_user_id

\* C4: when the accept request of user V for the edge U -> V commits, in the
\* state it leaves is_friend is true for viewer U and argument V and for
\* viewer V and argument U.
C4_AcceptMakesFriends ==
  [][\A s \in Slots, U \in UserIds, V \in UserIds :
       (/\ At(s, "connect_user", "update_status")
        /\ Steps(s)
        /\ U = user_connects[reqs[s].arg].from_user_id
        /\ V = reqs[s].u)
         => is_friend(U, V)' /\ is_friend(V, U)']_vars

\* two different users are friends in both orderings after an accept
C4_Witness ==
  \E u, v \in UserIds :
    /\ u # v
    /\ is_friend(u, v) /\ is_friend(v, u)
    /\ resp \in {"302", "500"}
    /\ \A s \in Slots : Free(s)

\* C5: in every reachable state and for all users U and V, is_friend with
\* viewer U and argument V is true exactly when an edge with status 2 joins U
\* and V in one direction or the other; with no edge or only pending edges it
\* is false.
C5_IsFriendIffAcceptedEdge ==
  \A u, v \in UserIds : is_friend(u, v) <=> Friends(u, v)

\* one pair has only a pending edge and is not friends, another pair is
C5_Witness ==
  \E u, v, w \in UserIds :
    /\ \E c \in DOMAIN user_connects :
         /\ user_connects[c].from_user_id = u /\ user_connects[c].to_user_id = v
         /\ user_connects[c].status = StatusPending
    /\ ~is_friend(u, v) /\ ~is_friend(v, u)
    /\ is_friend(u, w)

\* C6: a POST to message/<id> inserts a row only when the logged-in user and
\* user <id> are friends; a request for a non-friend is answered with the
\* redirect and leaves the rows as they are; so every row was inserted between
\* two users who were friends at that step.
C6_OnlyFriendsSend ==
  /\ [](\A m \in DOMAIN sent_as_friend : sent_as_friend[m])
  /\ [](\A s \in Slots : reqs[s].h = "message" => Friends(reqs[s].u, reqs[s].arg))
  /\ [][\A s \in Slots, cur \in UserIds, id \in UserIds, post \in BOOLEAN :
          (Accepts(s) /\ ~Friends(cur, id) /\ message(s, cur, id, post))
            => resp' = "302" /\ reqs'[s] = Idle /\ messages' = messages]_vars
  /\ [][DOMAIN messages' # DOMAIN messages
          => \E s \in Slots :
               /\ At(s, "message", "post") /\ Steps(s)
               /\ Friends(reqs[s].u, reqs[s].arg)
               /\ messages' = Insert(messages, [from_user_id |-> reqs[s].u,
                                                to_user_id |-> reqs[s].arg,
                                                is_read |-> FALSE,
                                                is_checked |-> FALSE])]_vars

\* a row has been inserted and its POST answered with the redirect
C6_Witness ==
  /\ DOMAIN messages # {}
  /\ resp = "302"
  /\ \A m \in DOMAIN messages : ~messages[m].is_read

\* C7: a message is created with is_read = false and is_checked = false, no
\* row disappears, and a flag that is true in a state is true in the next one,
\* whichever view, poll or send takes the step.
C7_FlagsMonotonic ==
  [][\A m \in DOMAIN messages \cup DOMAIN messages' :
       IF m \in DOMAIN messages
         THEN /\ m \in DOMAIN messages'
              /\ messages[m].is_read => messages'[m].is_read
              /\ messages[m].is_checked => messages'[m].is_checked
         ELSE ~messages'[m].is_read /\ ~messages'[m].is_checked]_vars

\* a message has gone all the way to checked and a later one is still unread
C7_Witness ==
  \E m, n \in DOMAIN messages :
    /\ m < n
    /\ messages[m].is_read /\ messages[m].is_checked
    /\ ~messages[n].is_read /\ ~messages[n].is_checked

\* C8: is_checked of a message turns true only in the update_is_checked step
\* of a message view or a message_ajax poll whose logged-in user is the
\* message's from_user_id, and every id such a request holds for that update
\* was of a message with is_read = true that the logged-in user had sent.
C8_OnlySenderChecksRead ==
  /\ [](\A s \in Slots :
          reqs[s].pc = "update_is_checked"
            => \A m \in reqs[s].ids2 :
                 /\ m \in DOMAIN messages
                 /\ messages[m].is_read
                 /\ messages[m].from_user_id = reqs[s].u)
  /\ [][\A m \in DOMAIN messages :
          (~messages[m].is_checked /\ messages'[m].is_checked)
            => /\ messages[m].is_read
               /\ \E s \in Slots :
                    /\ reqs[s].h \in {"message", "message_ajax"}
                    /\ reqs[s].pc = "update_is_checked"
                    /\ Steps(s)
                    /\ m \in reqs[s].ids2
                    /\ reqs[s].u = messages[m].from_user_id]_vars

\* a message is checked while its recipient has a poll of the conversation
\* under way
C8_Witness ==
  \E m \in DOMAIN messages, s \in Slots :
    /\ messages[m].is_checked
    /\ reqs[s].h = "message_ajax"
    /\ reqs[s].u = messages[m].to_user_id
    /\ reqs[s].arg = messages[m].from_user_id

\* C9: once a completed reset_password POST has deleted a token,
\* get_user_id_by_token returns None for it in every later state, and a
\* reset_password request that arrives with it afterwards is answered with 500
\* before it saves anything: run one after the other, two requests never both
\* reset a password with the same token.
C9_ConsumedTokenIsGone ==
  /\ [](\A token \in consumed : get_user_id_by_token(token) = NoneVal)
  /\ [][\A s \in Slots, token \in consumed, post \in BOOLEAN :
          reset_password(s, token, post)
            => resp' = "500" /\ reqs'[s] = Idle /\ UNCHANGED AccountVars]_vars

\* a token has been consumed on the day it was issued, and a request was
\* answered with 500 afterwards
C9_Witness ==
  /\ consumed # {}
  /\ now = 0
  /\ resp = "500"

\* C10: while now is at or past the expire_at of a token's row,
\* get_user_id_by_token returns None for the token although the row exists,
\* and a reset_password request with it, GET or POST, is answered with 500 and
\* changes no user (password, is_active) and no token row.
C10_ExpiredTokenRejected ==
  /\ [](\A r \in DOMAIN password_reset_tokens :
          password_reset_tokens[r].expire_at <= now
            => get_user_id_by_token(password_reset_tokens[r].token) = NoneVal)
  /\ [][\A s \in Slots, r \in DOMAIN password_reset_tokens, post \in BOOLEAN :
          (/\ password_reset_tokens[r].expire_at <= now
           /\ reset_password(s, password_reset_tokens[r].token, post))
            => /\ resp' = "500"
               /\ reqs'[s] = Idle
               /\ users' = users
               /\ password_reset_tokens' = password_reset_tokens]_vars

\* the row of a token is still stored on the very day it expires, and a
\* request has just been answered with 500
C10_Witness ==
  /\ \E r \in DOMAIN password_reset_tokens : password_reset_tokens[r].expire_at = now
  /\ resp = "500"
  /\ \A s \in Slots : Free(s)

\* C11: a user is created with is_active = false; is_active turns true only
\* in the step of a reset_password POST for that user that saves the password,
\* and it is true after every such step; register, forgot_password, login,
\* change_password and the profile edit never activate a user, and no
\* inactive user has a session.
C11_ActiveOnlyByReset ==
  /\ [](\A u \in sessions : u \in DOMAIN users /\ users[u].is_active)
  /\ [][\A u \in DOMAIN users' :
          IF u \in DOMAIN users
            THEN (~users[u].is_active /\ users'[u].is_active)
                   => \E s \in Slots :
                        /\ At(s, "reset_password", "save_new_password")
                        /\ Steps(s)
                        /\ reqs[s].u = u
                        /\ resp' = "302"
            ELSE ~users'[u].is_active]_vars
  /\ [][\A s \in Slots :
          (At(s, "reset_password", "save_new_password") /\ Steps(s) /\ resp' = "302")
            => users'[reqs[s].u].is_active]_vars
  /\ [][\A u \in sessions' \ sessions :
          u \in DOMAIN users /\ users[u].is_active]_vars

\* one user has reset the password and logged in while a second one, who has
\* registered and asked for a further token, is still inactive
C11_Witness ==
  /\ \E u \in sessions : users[u].is_active
  /\ \E v \in DOMAIN users :
       /\ ~users[v].is_active
       /\ \E r \in DOMAIN password_reset_tokens : password_reset_tokens[r].user_id = v

\* C12: of the reset_password POSTs that carry one token, however they
\* interleave, at most one changes a password: a request that saves after a
\* completed POST has consumed its token leaves every user as it is.
C12_TokenSingleUse ==
  [][\A s \in Slots :
       (/\ At(s, "reset_password", "save_new_password")
        /\ Steps(s)
        /\ reqs[s].arg \in consumed)
         => users' = users]_vars

\* C13: the password save and the token deletion of reset_password are one
\* commit: a step that removes the rows of a token is the saving step of a
\* request with that token and writes the password of its user, a step of
\* such a request that changes a user leaves no row of its token, and a
\* request that fails changes neither.
C13_SaveAndDeleteAtomic ==
  /\ [][\A token \in TokenValues :
          (/\ \E r \in DOMAIN password_reset_tokens :
                 password_reset_tokens[r].token = token
           /\ ~\E r \in DOMAIN password_reset_tokens' :
                 password_reset_tokens'[r].token = token)
            => \E s \in Slots, password \in Passwords :
                 /\ At(s, "reset_password", "save_new_password")
                 /\ Steps(s)
                 /\ reqs[s].arg = token
                 /\ users' = [users EXCEPT ![reqs[s].u] =
                                [password |-> password, is_active |-> TRUE]]]_vars
  /\ [][\A s \in Slots :
          (At(s, "reset_password", "save_new_password") /\ Steps(s))
            => /\ users' # users
                    => ~\E r \in DOMAIN password_reset_tokens' :
                          password_reset_tokens'[r].token = reqs[s].arg
               /\ resp' = "500"
                    => /\ users' = users
                       /\ password_reset_tokens' = password_reset_tokens]_vars

\* a reset has gone through for one user while the token of another user,
\* whose password nobody has set, is still resolvable
C13_Witness ==
  /\ consumed # {}
  /\ \A s \in Slots : Free(s)
  /\ \E r \in DOMAIN password_reset_tokens :
       /\ get_user_id_by_token(password_reset_tokens[r].token) # NoneVal
       /\ ~users[password_reset_tokens[r].user_id].is_active

\* C14: a message_ajax poll of viewer V for peer P holds, from its SELECT on,
\* the messages from P to V that were unread then, in ascending id order; its
\* steps set is_read on those messages and on no other (not on the messages
\* from V to P, not on those of another pair), and the data it returns is
\* those messages in that order.
C14_PollMarksPeerMessagesRead ==
  /\ [][\A s \in Slots :
          (Free(s) /\ reqs'[s].h = "message_ajax")
            => /\ Ascending(reqs'[s].not_read_messages)
               /\ SeqRange(reqs'[s].not_read_messages)
                    = {m \in DOMAIN messages :
                         /\ messages[m].from_user_id = reqs'[s].arg
                         /\ messages[m].to_user_id = reqs'[s].u
                         /\ ~messages[m].is_read}
               /\ reqs'[s].ids1 = SeqRange(reqs'[s].not_read_messages)]_vars
  /\ [][\A s \in Slots :
          (reqs[s].h = "message_ajax" /\ Steps(s))
            => /\ \A m \in DOMAIN messages :
                    messages'[m].is_read
                      <=> \/ messages[m].is_read
                          \/ /\ m \in SeqRange(reqs[s].not_read_messages)
                             /\ reqs[s].pc = "update_is_read"
               /\ reqs'[s].h = "message_ajax"
                    => reqs'[s].not_read_messages = reqs[s].not_read_messages
               /\ resp' = "200" => body'.data = reqs[s].not_read_messages
               /\ resp' = "200"
                    => \A m \in SeqRange(reqs[s].not_read_messages) :
                         messages'[m].is_read]_vars

\* a poll has returned two messages at once, both marked read by it
C14_Witness ==
  /\ Len(body.data) = 2
  /\ body.data[1] < body.data[2]
  /\ \A i \in DOMAIN body.data : messages[body.data[i]].is_read

\* C15: the second SELECT of a message_ajax poll of viewer V for peer P
\* yields the messages from V to P that are read and not checked, in
\* ascending id order; the poll sets is_checked on those messages and on no
\* other and returns their ids as checked_message_ids; a message from V to P
\* that P has not read is neither marked nor reported.
C15_PollChecksReadMessages ==
  /\ [](\A s \in Slots :
          reqs[s].h = "message_ajax"
            => \A m \in SeqRange(reqs[s].not_checked_messages) :
                 /\ messages[m].is_read
                 /\ messages[m].from_user_id = reqs[s].u
                 /\ messages[m].to_user_id = reqs[s].arg)
  /\ [][\A s \in Slots :
          (message_ajax_select_not_checked(s) /\ reqs[s].arg # NoneVal)
            => LET found == {m \in DOMAIN messages :
                              /\ messages[m].from_user_id = reqs[s].u
                              /\ messages[m].to_user_id = reqs[s].arg
                              /\ messages[m].is_read
                              /\ ~messages[m].is_checked}
               IN IF found = {}
                    THEN resp' = "200" /\ body'.checked_message_ids = <<>>
                    ELSE /\ Ascending(reqs'[s].not_checked_messages)
                         /\ SeqRange(reqs'[s].not_checked_messages) = found
                         /\ reqs'[s].ids2 = found]_vars
  /\ [][\A s \in Slots :
          (reqs[s].h = "message_ajax" /\ Steps(s))
            => /\ \A m \in DOMAIN messages :
                    messages'[m].is_checked
                      <=> \/ messages[m].is_checked
                          \/ /\ m \in SeqRange(reqs[s].not_checked_messages)
                             /\ reqs[s].pc = "update_is_checked"
               /\ resp' = "200"
                    => /\ body'.checked_message_ids = reqs[s].not_checked_messages
                       /\ \A m \in SeqRange(body'.checked_message_ids) :
                            messages'[m].is_checked]_vars

\* a poll of the sender has reported his first message as checked while his
\* second one, which the recipient has not read, stays unchecked
C15_Witness ==
  /\ Len(body.checked_message_ids) = 1
  /\ \E m \in DOMAIN messages :
       /\ messages[m].from_user_id = messages[body.checked_message_ids[1]].from_user_id
       /\ messages[m].to_user_id = messages[body.checked_message_ids[1]].to_user_id
       /\ ~messages[m].is_read
       /\ ~messages[m].is_checked

\* the ids of the users a list query returns
Ids(rows) == {row.id : row \in rows}

\* a pending edge from u to v exists
Pending(u, v) ==
  \E c \in DOMAIN user_connects :
    /\ user_connects[c].from_user_id = u
    /\ user_connects[c].to_user_id = v
    /\ user_connects[c].status = StatusPending

C18_RequestedFriendsAreOutgoing ==
  \A cur \in UserIds :
    Ids(select_requested_friends(cur)) = {W \in DOMAIN users : Pending(cur, W)}

\* the messages between two users
Conversation(u, v) ==
  {m \in DOMAIN messages : {messages[m].from_user_id, messages[m].to_user_id} = {u, v}}

\* C17: the list the message view holds from its fetch on is the pair's
\* messages oldest first (ascending id), while load_old_messages fetches them
\* newest first (descending id) from offset offset_value * 50 with limit 50,
\* the list that make_old_message_format then renders back to front.
C17_TwoOrderings ==
  /\ [](\A s \in Slots :
          reqs[s].h = "message"
            => /\ Ascending(reqs[s].msgs)
               /\ SeqRange(reqs[s].msgs) \subseteq Conversation(reqs[s].u, reqs[s].arg))
  /\ [][\A s \in Slots, cur \in UserIds, user_id \in UserIds, offset_value \in {0, 1} :
          load_old_messages(s, cur, user_id, offset_value)
            => /\ Descending(make_old_message_format(body'.data))
               /\ SeqRange(body'.data)
                    = IF offset_value * LimitValue < Cardinality(Conversation(cur, user_id))
                        THEN Conversation(cur, user_id)
                        ELSE {}]_vars

\* C19: a connect_user 'accept' request for which no edge from the named
\* user to the logged-in user exists changes no edge, no message and no user,
\* creates no edge, and is answered with the redirect, not with an error.
C19_AcceptWithoutEdgeIsNoOp ==
  [][\A s \in Slots, cur \in UserIds, to_user_id \in UserIds, has_url \in BOOLEAN :
       (/\ connect_user(s, cur, "accept", to_user_id, has_url)
        /\ select_by_from_user_id(cur, to_user_id) = {})
         => /\ user_connects' = user_connects
            /\ messages' = messages
            /\ users' = users
            /\ reqs'[s] = Idle
            /\ resp' = "302"]_vars

\* every message of the response that is addressed to cur is read
DeliveredRead(cur) ==
  \A m \in SeqRange(body'.data) :
    messages'[m].to_user_id = cur => messages'[m].is_read

\* C20: when the message view, a message_ajax poll or load_old_messages (for
\* any offset_value) answers with messages, every one of them that is
\* addressed to the requesting user has is_read = true in the state the
\* request leaves.
C20_DeliveredIsRead ==
  /\ [][\A s \in Slots :
          (reqs[s].h \in {"message", "message_ajax"} /\ Steps(s) /\ resp' = "200")
            => DeliveredRead(reqs[s].u)]_vars
  /\ [][\A s \in Slots, cur \in UserIds, id \in UserIds :
          (message(s, cur, id, FALSE) /\ resp' = "200") => DeliveredRead(cur)]_vars
  /\ [][\A s \in Slots, cur \in UserIds, user_id \in UserIds, offset_value \in {0, 1} :
          load_old_messages(s, cur, user_id, offset_value) => DeliveredRead(cur)]_vars

\* C21: a message that a message_ajax poll returns to its recipient is
\* returned by no other poll of that recipient: a poll takes up only unread
\* messages, and when it answers, no other poll of the same viewer that is
\* under way holds one of the messages it returns.
C21_PolledAtMostOnce ==
  /\ [][\A s \in Slots :
          (Free(s) /\ reqs'[s].h = "message_ajax")
            => \A m \in SeqRange(reqs'[s].not_read_messages) : ~messages[m].is_read]_vars
  /\ [][\A s \in Slots, t \in Slots :
          (/\ reqs[s].h = "message_ajax"
           /\ Steps(s)
           /\ resp' = "200"
           /\ t # s
           /\ reqs[t].h = "message_ajax"
           /\ reqs[t].u = reqs[s].u)
            => SeqRange(reqs[t].not_read_messages) \cap SeqRange(body'.data) = {}]_vars

\* C22: in every state two users who are friends have no pending edge
\* between them in either direction, so a friend is in neither the list of
\* incoming requests nor the list of outgoing requests of the other.
C22_FriendsHaveNoPendingEdge ==
  \A u \in UserIds, v \in UserIds :
    (u # v /\ Friends(u, v))
      => /\ ~Pending(u, v)
         /\ ~Pending(v, u)
         /\ u \notin Ids(select_requested_friends(v))
         /\ v \notin Ids(select_requesting_friends(u))

\* C23: a request of the users never ends a friendship: a step after which
\* is_friend is false for a pair it was true for is a step of one of the
\* maintenance routes connect_delete and user_delete; connect, accept, profile
\* and password steps leave is_friend true for every pair it is true for
C23_FriendshipNotRevokedByUsers ==
  [][\A u \in UserIds, v \in UserIds :
       (is_friend(u, v) /\ ~is_friend(u, v)')
         => \/ \E s \in Slots, id \in DOMAIN user_connects : connect_delete(s, id)
            \/ \E s \in Slots, id \in UserIds : user_delete(s, id)]_vars

\* users 1 and 2 are friends by the first edge, a later request has added a
\* second edge, user 1 has changed the password, and a profile request has
\* just returned
C23_Witness ==
  /\ DOMAIN user_connects = {1, 2}
  /\ user_connects[1].status = StatusAccepted
  /\ is_friend(1, 2)
  /\ user_connects[2].status = StatusPending
  /\ 1 \in DOMAIN users /\ users[1].password = "pw2"
  /\ resp = "200"

\* every message of the set S has user u as its sender or as its recipient
PartyOfAll(u, S) ==
  \A m \in S : u \in {messages[m].from_user_id, messages[m].to_user_id}

\* C24: every message that message, message_ajax or load_old_messages returns
\* to a logged-in viewer, holds for the viewer while the request runs, or
\* changes the flags of, has the viewer as its sender or its recipient,
\* whatever user id the viewer names
C24_OnlyOwnMessages ==
  /\ [](\A s \in Slots :
          ~Free(s) => PartyOfAll(reqs[s].u,
                                 reqs[s].ids1 \cup reqs[s].ids2
                                   \cup SeqRange(reqs[s].msgs)
                                   \cup SeqRange(reqs[s].not_read_messages)
                                   \cup SeqRange(reqs[s].not_checked_messages)))
  /\ [][\A s \in Slots :
          Steps(s) =>
            /\ PartyOfAll(reqs[s].u, SeqRange(body'.data)
                                       \cup SeqRange(body'.checked_message_ids))
            /\ PartyOfAll(reqs[s].u,
                          {m \in DOMAIN messages : messages'[m] # messages[m]})]_vars
  /\ [][\A s \in Slots, cur \in UserIds :
          (/\ Free(s) /\ reqs' = reqs /\ body'.data # <<>>
           /\ \/ \E id \in UserIds : message(s, cur, id, FALSE)
              \/ \E user_id \in UserIds, offset_value \in OffsetValues :
                   load_old_messages(s, cur, user_id, offset_value))
            => /\ PartyOfAll(cur, SeqRange(body'.data))
               /\ messages' = messages]_vars

\* user 3 polls for the messages of user 1 and holds none of them, while a
\* message of user 1 to user 2 is unread
C24_Witness ==
  /\ \E s \in Slots :
       /\ At(s, "message_ajax", "select_not_checked")
       /\ reqs[s].u = 3 /\ reqs[s].arg = 1
       /\ reqs[s].not_read_messages = <<>>
  /\ \E m \in DOMAIN messages :
       /\ messages[m].from_user_id = 1 /\ messages[m].to_user_id = 2
       /\ ~messages[m].is_read

====
